---- MODULE Spec2Model ----
(***************************************************************************)
(* Model of UI/clipper.py (class Clipper): the two sliding-window buffers, *)
(* the save_clip threads with their lock, temporary files and encoder run, *)
(* and the recognition loop listen_for_clips with its trigger detection    *)
(* and debounce.                                                           *)
(*                                                                         *)
(* Time is counted in whole seconds.  The code compares time.time()        *)
(* differences with 2.0 and names files by a one-second strftime stamp, so *)
(* only the order of a difference relative to the cooldown and the         *)
(* equality of two stamps are observable; the integer grid has all cases.  *)
(* Text is a sequence of one-character strings.                            *)
(***************************************************************************)
EXTENDS Integers, Sequences, FiniteSets, TLC

----------------------------------------------------------------------------
(* Bounds of the model *)

\* set_buffer_duration is called with d in 1..MaxDuration
MaxDuration == 1
MaxBufferDuration == 2
\* frames the capture feed pushes in SpecBuffer (capacity 30*d must be passed)
MaxPushes == 32
\* frames the capture feed pushes in SpecSave
MaxSavePushes == 2
MaxClipPushes == 1
\* audio blocks the capture feed pushes
MaxAudioPushes == 1
\* save_clip invocations in SpecSave
MaxSaves == 2
\* save threads the recognition loop may dispatch
MaxThreads == 4
\* seconds the clock advances after start
MaxTime == 9

(* Program constants *)

\* frame_buffer = deque(maxlen=duration * 30)
FPS == 30
\* audio_buffer = deque(maxlen=duration * 44100 * 2)
AudioRate == 44100
AudioChannels == 2
\* Clipper.__init__(buffer_duration=30)
DefaultDuration == 30
\* recent_commands = deque(maxlen=3)
RecentMax == 3
\* if current_time - last_clip_time > 2.0
Cooldown == 2
\* if ratio > 40
FuzzThreshold == 40
\* len(word) > 1, len(recognized_text) > 1
MinLen == 1

Threads == 1..MaxThreads
Durations == 1..MaxDuration
BufferDurations == 1..MaxBufferDuration

\* time.time() at start: the epoch clock is far beyond the cooldown
EpochStart == Cooldown + 1

----------------------------------------------------------------------------
VARIABLES
    \* Clipper fields
    buffer_duration, frame_buffer, audio_buffer, clip_counter, lock, is_listening,
    \* environment: clock, temporary files in output_folder, clip files
    now, fs, outputs,
    \* capture feed and the thread calling the configuration methods
    next_frame, next_audio, pushed_frames, cfg_pc, cfg_arg,
    \* save_clip threads: position and locals
    pc, timestamp, output_counter, frames, result,
    \* listen_for_clips thread: position and locals
    lpc, stream, recent_commands, last_clip_time, cleaned_text, clip_detected,
    outcome, accept_times,
    \* whether stop_listening has been called since start_listening
    stop_requested

clipperVars == <<buffer_duration, frame_buffer, audio_buffer, clip_counter, lock, is_listening>>
envVars == <<now, fs, outputs>>
feedVars == <<next_frame, next_audio, pushed_frames, cfg_pc, cfg_arg>>
saveVars == <<pc, timestamp, output_counter, frames, result>>
listenVars == <<lpc, stream, recent_commands, last_clip_time, cleaned_text, clip_detected,
                outcome, accept_times, stop_requested>>
vars == <<clipperVars, envVars, feedVars, saveVars, listenVars>>

----------------------------------------------------------------------------
(* collections.deque(maxlen=n), and None *)

None == [isNone |-> TRUE, maxlen |-> 0, items |-> <<>>]

Deque(n) == [isNone |-> FALSE, maxlen |-> n, items |-> <<>>]

\* bool(x) of a buffer field: None and the empty deque are false
Truthy(buf) == ~buf.isNone /\ Len(buf.items) > 0

\* a mutant of DequeAppend: a full deque rejects the new item
DequeAppend_RejectNew(buf, x) ==
    IF Len(buf.items) >= buf.maxlen
    THEN buf
    ELSE [buf EXCEPT !.items = Append(@, x)]

\* a mutant of DequeAppend: a full deque drops its newest item
DequeAppend_DropNewest(buf, x) ==
    IF buf.maxlen = 0 THEN buf
    ELSE IF Len(buf.items) = buf.maxlen
    THEN [buf EXCEPT !.items = Append(SubSeq(@, 1, Len(@) - 1), x)]
    ELSE [buf EXCEPT !.items = Append(@, x)]

\* deque.append on a deque with maxlen: a full deque drops its oldest item
DequeAppend(buf, x) ==
    IF buf.maxlen = 0 THEN buf
    ELSE IF Len(buf.items) = buf.maxlen
    THEN [buf EXCEPT !.items = Append(Tail(@), x)]
    ELSE [buf EXCEPT !.items = Append(@, x)]

\* line 124
FrameCapacity(d) == d * FPS

\* line 126
AudioCapacity(d) == d * AudioRate * AudioChannels

----------------------------------------------------------------------------
Init ==
    /\ buffer_duration = DefaultDuration
    /\ frame_buffer = None
    /\ audio_buffer = None
    /\ clip_counter = 0
    /\ lock = 0
    /\ is_listening = FALSE
    /\ now = EpochStart
    /\ fs = {}
    /\ outputs = {}
    /\ next_frame = 1
    /\ next_audio = 1
    /\ pushed_frames = <<>>
    /\ cfg_pc = "idle"
    /\ cfg_arg = 0
    /\ pc = [t \in Threads |-> "idle"]
    /\ timestamp = [t \in Threads |-> 0]
    /\ output_counter = [t \in Threads |-> 0]
    /\ frames = [t \in Threads |-> <<>>]
    /\ result = [t \in Threads |-> "none"]
    /\ lpc = "none"
    /\ stream = "none"
    /\ recent_commands = <<>>
    /\ last_clip_time = 0
    /\ cleaned_text = <<>>
    /\ clip_detected = FALSE
    /\ outcome = "none"
    /\ accept_times = <<>>
    /\ stop_requested = FALSE

----------------------------------------------------------------------------
(* The clock *)

Tick ==
    /\ now < EpochStart + MaxTime
    /\ now' = now + 1
    /\ UNCHANGED <<clipperVars, fs, outputs, feedVars, saveVars, listenVars>>

----------------------------------------------------------------------------
(* Configuration methods, called by the main application *)

\* a mutant of SetBufferDuration: the new frame buffer takes over the newest
\* frames of the old one
SetBufferDuration_Migrate(d) ==
    /\ cfg_pc = "idle"
    /\ buffer_duration' = d
    /\ frame_buffer' =
           [isNone |-> FALSE, maxlen |-> FrameCapacity(d),
            items |-> IF Len(frame_buffer.items) <= FrameCapacity(d)
                      THEN frame_buffer.items
                      ELSE SubSeq(frame_buffer.items,
                                  Len(frame_buffer.items) - FrameCapacity(d) + 1,
                                  Len(frame_buffer.items))]
    /\ pushed_frames' = <<>>
    /\ cfg_pc' = "duration_audio"
    /\ cfg_arg' = d
    /\ UNCHANGED <<audio_buffer, clip_counter, lock, is_listening, envVars,
                   next_frame, next_audio, saveVars, listenVars>>

\* set_buffer_duration, lines 121-124: the duration and the frame buffer
SetBufferDuration(d) ==
    /\ cfg_pc = "idle"
    /\ buffer_duration' = d
    /\ frame_buffer' = Deque(FrameCapacity(d))
    /\ pushed_frames' = <<>>
    /\ cfg_pc' = "duration_audio"
    /\ cfg_arg' = d
    /\ UNCHANGED <<audio_buffer, clip_counter, lock, is_listening, envVars,
                   next_frame, next_audio, saveVars, listenVars>>

\* set_buffer_duration, lines 125-126: the audio buffer
SetBufferDurationAudio ==
    /\ cfg_pc = "duration_audio"
    /\ audio_buffer' = Deque(AudioCapacity(cfg_arg))
    /\ cfg_pc' = "idle"
    /\ cfg_arg' = 0
    /\ UNCHANGED <<buffer_duration, frame_buffer, clip_counter, lock, is_listening,
                   envVars, next_frame, next_audio, pushed_frames, saveVars, listenVars>>

\* the buffers the main application hands to set_buffers: None (d = 0), or
\* the empty deques of the configured duration d
BufferArg(d) == IF d = 0 THEN None ELSE Deque(FrameCapacity(d))

AudioBufferArg(d) == IF d = 0 THEN None ELSE Deque(AudioCapacity(d))

\* set_buffers, line 106
SetBuffers(d) ==
    /\ cfg_pc = "idle"
    /\ frame_buffer' = BufferArg(d)
    /\ pushed_frames' = <<>>
    /\ cfg_pc' = "set_audio"
    /\ cfg_arg' = d
    /\ UNCHANGED <<buffer_duration, audio_buffer, clip_counter, lock, is_listening,
                   envVars, next_frame, next_audio, saveVars, listenVars>>

\* set_buffers, line 107
SetBuffersAudio ==
    /\ cfg_pc = "set_audio"
    /\ audio_buffer' = AudioBufferArg(cfg_arg)
    /\ cfg_pc' = "idle"
    /\ cfg_arg' = 0
    /\ UNCHANGED <<buffer_duration, frame_buffer, clip_counter, lock, is_listening,
                   envVars, next_frame, next_audio, pushed_frames, saveVars, listenVars>>

----------------------------------------------------------------------------
(* The capture feed: one push is taken under the lock of the buffer pair *)

PushFrame(limit) ==
    /\ lock = 0
    /\ ~frame_buffer.isNone
    /\ next_frame <= limit
    /\ frame_buffer' = DequeAppend(frame_buffer, next_frame)
    /\ pushed_frames' = Append(pushed_frames, next_frame)
    /\ next_frame' = next_frame + 1
    /\ UNCHANGED <<buffer_duration, audio_buffer, clip_counter, lock, is_listening,
                   envVars, next_audio, cfg_pc, cfg_arg, saveVars, listenVars>>

PushAudio ==
    /\ lock = 0
    /\ ~audio_buffer.isNone
    /\ next_audio <= MaxAudioPushes
    /\ audio_buffer' = DequeAppend(audio_buffer, next_audio)
    /\ next_audio' = next_audio + 1
    /\ UNCHANGED <<buffer_duration, frame_buffer, clip_counter, lock, is_listening,
                   envVars, next_frame, pushed_frames, cfg_pc, cfg_arg, saveVars, listenVars>>

----------------------------------------------------------------------------
(* Temporary files of output_folder: a file is its name and the save that   *)
(* created it; opening an existing name for writing keeps the file.         *)

TempVideo(ts) == <<"temp_video", ts>>

TempAudio(ts) == <<"temp_audio", ts>>

\* os.path.exists
FileExists(files, name) == \E f \in files : f.name = name

\* open(name, 'wb')
CreateFile(files, name, t) ==
    IF FileExists(files, name) THEN files ELSE files \cup {[name |-> name, by |-> t]}

\* if os.path.exists(name): os.remove(name)
RemoveFile(files, name) == {f \in files : f.name # name}

----------------------------------------------------------------------------
(* save_clip, one thread t per invocation *)

\* threading.Thread(target=self.save_clip).start(), or a direct call
StartSave(t) ==
    /\ pc[t] = "idle"
    /\ \A s \in Threads : s < t => pc[s] # "idle"
    /\ pc' = [pc EXCEPT ![t] = "lock"]

\* save_clip is called on a thread of its own
CallSaveClip(t) ==
    /\ t <= MaxSaves
    /\ StartSave(t)
    /\ UNCHANGED <<clipperVars, envVars, feedVars, timestamp, output_counter, frames,
                   result, listenVars>>

\* a mutant of LockAcquire: save_clip does not take the lock
LockAcquire_NoLock(t) == lock' = lock

\* with self.lock: (entry)
LockAcquire(t) == lock = 0 /\ lock' = t

\* with self.lock: (exit)
LockRelease(t) == lock' = 0

\* line 130
Acquire(t) ==
    /\ pc[t] = "lock"
    /\ LockAcquire(t)
    /\ pc' = [pc EXCEPT ![t] = "check"]
    /\ UNCHANGED <<buffer_duration, frame_buffer, audio_buffer, clip_counter, is_listening,
                   envVars, feedVars, timestamp, output_counter, frames, result, listenVars>>

\* a mutant of NothingToSave: only an unset buffer counts as empty
NothingToSave_UnsetOnly(buf) == buf.isNone

\* line 131: not self.frame_buffer or len(self.frame_buffer) == 0
NothingToSave(buf) == ~Truthy(buf) \/ Len(buf.items) = 0

\* lines 131-133: print("No frames to save"); return
CheckEmpty(t) ==
    /\ pc[t] = "check"
    /\ NothingToSave(frame_buffer)
    /\ result' = [result EXCEPT ![t] = "nothing"]
    /\ pc' = [pc EXCEPT ![t] = "done"]
    /\ LockRelease(t)
    /\ UNCHANGED <<buffer_duration, frame_buffer, audio_buffer, clip_counter, is_listening,
                   envVars, feedVars, timestamp, output_counter, frames, listenVars>>

\* a mutant of NextCounter: the counter is left as it is
NextCounter_Same(c) == c

\* line 135: self.clip_counter += 1
NextCounter(c) == c + 1

\* lines 131-136: the counter and the timestamp
CheckNonEmpty(t) ==
    /\ pc[t] = "check"
    /\ ~NothingToSave(frame_buffer)
    /\ clip_counter' = NextCounter(clip_counter)
    /\ timestamp' = [timestamp EXCEPT ![t] = now]
    /\ pc' = [pc EXCEPT ![t] = "name"]
    /\ UNCHANGED <<buffer_duration, frame_buffer, audio_buffer, lock, is_listening,
                   envVars, feedVars, output_counter, frames, result, listenVars>>

\* lines 139-146: the three file names; the output name reads self.clip_counter
NameFiles(t) ==
    /\ pc[t] = "name"
    /\ output_counter' = [output_counter EXCEPT ![t] = clip_counter]
    /\ pc' = [pc EXCEPT ![t] = "open_video"]
    /\ UNCHANGED <<clipperVars, envVars, feedVars, timestamp, frames, result, listenVars>>

\* line 150: open(temp_video, 'wb')
OpenVideo(t) ==
    /\ pc[t] = "open_video"
    /\ fs' = CreateFile(fs, TempVideo(timestamp[t]), t)
    /\ pc' = [pc EXCEPT ![t] = "copy_frames"]
    /\ UNCHANGED <<clipperVars, now, outputs, feedVars, timestamp, output_counter, frames,
                   result, listenVars>>

\* line 150 raises (OSError), caught at line 232
OpenVideoFails(t) ==
    /\ pc[t] = "open_video"
    /\ result' = [result EXCEPT ![t] = "error"]
    /\ pc' = [pc EXCEPT ![t] = "cleanup"]
    /\ UNCHANGED <<clipperVars, envVars, feedVars, timestamp, output_counter, frames,
                   listenVars>>

\* lines 151-153: frames = list(self.frame_buffer), written to temp_video;
\* list(None) raises TypeError, caught at line 232
CopyFrames(t) ==
    /\ pc[t] = "copy_frames"
    /\ IF frame_buffer.isNone
       THEN /\ result' = [result EXCEPT ![t] = "error"]
            /\ pc' = [pc EXCEPT ![t] = "cleanup"]
            /\ UNCHANGED frames
       ELSE /\ frames' = [frames EXCEPT ![t] = frame_buffer.items]
            /\ pc' = [pc EXCEPT ![t] = "audio_check"]
            /\ UNCHANGED result
    /\ UNCHANGED <<clipperVars, envVars, feedVars, timestamp, output_counter, listenVars>>

\* line 156: if self.audio_buffer and len(self.audio_buffer) > 0
AudioCheck(t) ==
    /\ pc[t] = "audio_check"
    /\ pc' = [pc EXCEPT ![t] = IF Truthy(audio_buffer) THEN "write_audio" ELSE "encode"]
    /\ UNCHANGED <<clipperVars, envVars, feedVars, timestamp, output_counter, frames,
                   result, listenVars>>

\* lines 157-161: wave.open(temp_audio, 'wb') and the copy of the audio buffer;
\* list(None) raises TypeError, caught at line 232
WriteAudio(t) ==
    /\ pc[t] = "write_audio"
    /\ fs' = CreateFile(fs, TempAudio(timestamp[t]), t)
    /\ IF audio_buffer.isNone
       THEN /\ result' = [result EXCEPT ![t] = "error"]
            /\ pc' = [pc EXCEPT ![t] = "cleanup"]
       ELSE /\ pc' = [pc EXCEPT ![t] = "encode"]
            /\ UNCHANGED result
    /\ UNCHANGED <<clipperVars, now, outputs, feedVars, timestamp, output_counter, frames,
                   listenVars>>

\* lines 164-226: subprocess.run(command, check=True) returns
EncodeOk(t) ==
    /\ pc[t] = "encode"
    /\ outputs' = outputs \cup {<<timestamp[t], output_counter[t]>>}
    /\ result' = [result EXCEPT ![t] = "success"]
    /\ pc' = [pc EXCEPT ![t] = "cleanup"]
    /\ UNCHANGED <<clipperVars, now, fs, feedVars, timestamp, output_counter, frames,
                   listenVars>>

\* lines 225-233: subprocess.run raises (CalledProcessError, or ffmpeg is missing)
EncodeFails(t) ==
    /\ pc[t] = "encode"
    /\ result' = [result EXCEPT ![t] = "failed"]
    /\ pc' = [pc EXCEPT ![t] = "cleanup"]
    /\ UNCHANGED <<clipperVars, envVars, feedVars, timestamp, output_counter, frames,
                   listenVars>>

\* a mutant of RemoveTemps: the files are removed after a successful run only
RemoveTemps_OnSuccess(files, ts, res) ==
    IF res = "success"
    THEN RemoveFile(RemoveFile(files, TempVideo(ts)), TempAudio(ts))
    ELSE files

\* lines 234-239: finally, whatever the outcome res
RemoveTemps(files, ts, res) == RemoveFile(RemoveFile(files, TempVideo(ts)), TempAudio(ts))

\* lines 234-239 and the exit of the with block
Cleanup(t) ==
    /\ pc[t] = "cleanup"
    /\ fs' = RemoveTemps(fs, timestamp[t], result[t])
    /\ frames' = [frames EXCEPT ![t] = <<>>]
    /\ pc' = [pc EXCEPT ![t] = "done"]
    /\ LockRelease(t)
    /\ UNCHANGED <<buffer_duration, frame_buffer, audio_buffer, clip_counter, is_listening,
                   now, outputs, feedVars, timestamp, output_counter, result, listenVars>>

----------------------------------------------------------------------------
(* The buffers with one save: pushes beyond the capacity *)

NextBuffer ==
    \/ \E d \in BufferDurations : SetBufferDuration(d)
    \/ SetBufferDurationAudio
    \/ PushFrame(MaxPushes)
    \/ PushAudio
    \/ CallSaveClip(1)
    \/ Acquire(1)
    \/ CheckEmpty(1)
    \/ CheckNonEmpty(1)
    \/ NameFiles(1)
    \/ OpenVideo(1)
    \/ OpenVideoFails(1)
    \/ CopyFrames(1)
    \/ AudioCheck(1)
    \/ WriteAudio(1)
    \/ EncodeOk(1)
    \/ EncodeFails(1)
    \/ Cleanup(1)

SpecBuffer == Init /\ [][NextBuffer]_vars

(* Concurrent saves, the feed and the configuration methods *)

NextSave ==
    \/ \E d \in Durations : SetBufferDuration(d)
    \/ SetBufferDurationAudio
    \/ \E d \in {0, buffer_duration} : SetBuffers(d)
    \/ SetBuffersAudio
    \/ PushFrame(MaxSavePushes)
    \/ PushAudio
    \/ \E t \in Threads : CallSaveClip(t)
    \/ \E t \in Threads : Acquire(t)
    \/ \E t \in Threads : CheckEmpty(t)
    \/ \E t \in Threads : CheckNonEmpty(t)
    \/ \E t \in Threads : NameFiles(t)
    \/ \E t \in Threads : OpenVideo(t)
    \/ \E t \in Threads : OpenVideoFails(t)
    \/ \E t \in Threads : CopyFrames(t)
    \/ \E t \in Threads : AudioCheck(t)
    \/ \E t \in Threads : WriteAudio(t)
    \/ \E t \in Threads : EncodeOk(t)
    \/ \E t \in Threads : EncodeFails(t)
    \/ \E t \in Threads : Cleanup(t)

SpecSave == Init /\ [][NextSave]_vars

----------------------------------------------------------------------------
(* Text: str.lower, str.strip, str.split, ' '.join, the in operator *)

Uppers == <<"A", "B", "C", "D", "E", "F", "G", "H", "I", "J", "K", "L", "M",
            "N", "O", "P", "Q", "R", "S", "T", "U", "V", "W", "X", "Y", "Z">>

Lowers == <<"a", "b", "c", "d", "e", "f", "g", "h", "i", "j", "k", "l", "m",
            "n", "o", "p", "q", "r", "s", "t", "u", "v", "w", "x", "y", "z">>

LowerChar(c) ==
    IF \E i \in 1..Len(Uppers) : Uppers[i] = c
    THEN Lowers[CHOOSE i \in 1..Len(Uppers) : Uppers[i] = c]
    ELSE c

Lower(s) == [i \in 1..Len(s) |-> LowerChar(s[i])]

IsSpace(c) == c \in {" ", "\t", "\n"}

RECURSIVE LStrip(_)
LStrip(s) == IF s # <<>> /\ IsSpace(Head(s)) THEN LStrip(Tail(s)) ELSE s

RECURSIVE RStrip(_)
RStrip(s) ==
    IF s # <<>> /\ IsSpace(s[Len(s)]) THEN RStrip(SubSeq(s, 1, Len(s) - 1)) ELSE s

Strip(s) == RStrip(LStrip(s))

RECURSIVE SplitFrom(_, _, _)
SplitFrom(s, word, done) ==
    IF s = <<>>
    THEN IF word = <<>> THEN done ELSE Append(done, word)
    ELSE IF IsSpace(Head(s))
    THEN SplitFrom(Tail(s), <<>>, IF word = <<>> THEN done ELSE Append(done, word))
    ELSE SplitFrom(Tail(s), Append(word, Head(s)), done)

\* s.split()
Split(s) == SplitFrom(s, <<>>, <<>>)

RECURSIVE Join(_)
\* ' '.join(words)
Join(words) ==
    IF words = <<>> THEN <<>>
    ELSE IF Len(words) = 1 THEN words[1]
    ELSE words[1] \o <<" ">> \o Join(Tail(words))

\* w in s, for strings
IsSubstring(w, s) ==
    \E i \in 0..(Len(s) - Len(w)) : SubSeq(s, i + 1, i + Len(w)) = w

Max(a, b) == IF a >= b THEN a ELSE b

RECURSIVE LCS(_, _)
\* length of the longest common subsequence
LCS(a, b) ==
    IF a = <<>> \/ b = <<>> THEN 0
    ELSE IF Head(a) = Head(b) THEN 1 + LCS(Tail(a), Tail(b))
    ELSE Max(LCS(Tail(a), b), LCS(a, Tail(b)))

----------------------------------------------------------------------------
(* Trigger detection, lines 268-296 *)

\* line 276
StopWords ==
    {<<"t", "h", "e">>, <<"a">>, <<"a", "n">>, <<"a", "n", "d">>, <<"o", "r">>, <<"b", "u", "t">>, <<"i", "n">>, <<"o", "n">>, <<"a", "t">>, <<"t", "o">>}

\* line 284
ClipWords ==
    {<<"c", "l", "i", "p">>,
     <<"c", "l", "i", "p", "s">>,
     <<"c", "l", "i", "p", "p", "e", "d">>,
     <<"c", "l", "i", "c", "k">>,
     <<"q", "u", "i", "c", "k">>,
     <<"c", "l", "i">>,
     <<"c", "l", "i", "s">>}

Clip == <<"c", "l", "i", "p">>

\* line 268: result.get("text", "").lower().strip()
RecognizedText(text) == Strip(Lower(text))

KeepWord(w) == Len(w) > MinLen /\ w \notin StopWords

\* lines 273-277
CleanedText(recognized) == Join(SelectSeq(Split(recognized), KeepWord))

\* line 271: recognized_text and len(recognized_text) > 1
Meaningful(recognized) == recognized # <<>> /\ Len(recognized) > MinLen

\* line 287: any(word in cleaned_text for word in clip_words)
DirectMatch(cleaned) == \E w \in ClipWords : IsSubstring(w, cleaned)

\* lines 292-293: fuzz.ratio(a, b) > 40, where fuzz.ratio is the normalized
\* indel similarity 100 * 2 * LCS(a, b) / (len(a) + len(b))
RatioPasses(a, b) == 100 * 2 * LCS(a, b) > FuzzThreshold * (Len(a) + Len(b))

\* lines 290-296
FuzzyMatch(cleaned) ==
    \E i \in 1..Len(Split(cleaned)) : RatioPasses(Clip, Split(cleaned)[i])

\* lines 287-296
ClipDetected(cleaned) == DirectMatch(cleaned) \/ FuzzyMatch(cleaned)

\* the texts the recognizer returns:
\* "The Clip Now", "quickly", "klip", "a", "to the", "closed",
\* " Quick ", ""
Utterances ==
    { <<"T", "h", "e", " ", "C", "l", "i", "p", " ", "N", "o", "w">>,
      <<"q", "u", "i", "c", "k", "l", "y">>,
      <<"k", "l", "i", "p">>,
      <<"a">>,
      <<"t", "o", " ", "t", "h", "e">>,
      <<"c", "l", "o", "s", "e", "d">>,
      <<" ", "Q", "u", "i", "c", "k", " ">>,
      <<>> }

\* what lines 268-296 make of a text: computed once per text
Hearing(text) ==
    LET recognized == RecognizedText(text)
        cleaned == IF Meaningful(recognized) THEN CleanedText(recognized) ELSE <<>>
    IN  [meaningful |-> Meaningful(recognized),
         cleaned |-> cleaned,
         detected |-> cleaned # <<>> /\ ClipDetected(cleaned)]

Heard == [text \in Utterances |-> Hearing(text)]

----------------------------------------------------------------------------
(* Debounce, lines 299-310 *)

\* a mutant of CooldownPassed: no cooldown
CooldownPassed_Always(current_time, last) == current_time - last >= 0

\* line 301
CooldownPassed(current_time, last) == current_time - last > Cooldown

InRecent(text, recent) == \E i \in 1..Len(recent) : recent[i] = text

\* a mutant of IsDuplicate: only the last command is compared
IsDuplicate_LastOnly(text, recent) == recent # <<>> /\ recent[Len(recent)] = text

\* line 302: cleaned_text in recent_commands
IsDuplicate(text, recent) == InRecent(text, recent)

\* a mutant of RecentAppend: a list that is never trimmed
RecentAppend_NoEvict(recent, text) == Append(recent, text)

\* line 306, on deque(maxlen=3)
RecentAppend(recent, text) ==
    IF Len(recent) = RecentMax THEN Append(Tail(recent), text) ELSE Append(recent, text)

----------------------------------------------------------------------------
(* listen_for_clips on its thread, start_listening, stop_listening *)

\* lines 323-325
StartListening ==
    /\ lpc = "none"
    /\ lpc' = "open"
    /\ UNCHANGED <<clipperVars, envVars, feedVars, saveVars, stream, recent_commands,
                   last_clip_time, cleaned_text, clip_detected, outcome, accept_times,
                   stop_requested>>

\* a mutant of StopListening: stopping also abandons the saves that have not
\* finished
StopListening_CancelSaves ==
    /\ is_listening' = FALSE
    /\ stop_requested' = (stop_requested \/ lpc # "none")
    /\ pc' = [t \in Threads |-> IF pc[t] \in {"idle", "done"} THEN pc[t] ELSE "done"]
    /\ lock' = 0
    /\ UNCHANGED <<buffer_duration, frame_buffer, audio_buffer, clip_counter,
                   envVars, feedVars, timestamp, output_counter, frames, result,
                   lpc, stream, recent_commands, last_clip_time, cleaned_text,
                   clip_detected, outcome, accept_times>>

\* lines 327-329
StopListening ==
    /\ is_listening' = FALSE
    /\ stop_requested' = (stop_requested \/ lpc # "none")
    /\ UNCHANGED <<buffer_duration, frame_buffer, audio_buffer, clip_counter, lock,
                   envVars, feedVars, saveVars, lpc, stream, recent_commands,
                   last_clip_time, cleaned_text, clip_detected, outcome, accept_times>>

\* lines 245-253: the stream is opened
OpenStream ==
    /\ lpc = "open"
    /\ stream' = "open"
    /\ lpc' = "recognizer"
    /\ UNCHANGED <<clipperVars, envVars, feedVars, saveVars, recent_commands,
                   last_clip_time, cleaned_text, clip_detected, outcome, accept_times,
                   stop_requested>>

\* lines 245-253 raise, caught at line 315
OpenStreamFails ==
    /\ lpc = "open"
    /\ lpc' = "finally"
    /\ UNCHANGED <<clipperVars, envVars, feedVars, saveVars, stream, recent_commands,
                   last_clip_time, cleaned_text, clip_detected, outcome, accept_times,
                   stop_requested>>

\* lines 255-261
MakeRecognizer ==
    /\ lpc = "recognizer"
    /\ is_listening' = TRUE
    /\ recent_commands' = <<>>
    /\ last_clip_time' = 0
    /\ lpc' = "loop"
    /\ UNCHANGED <<buffer_duration, frame_buffer, audio_buffer, clip_counter, lock,
                   envVars, feedVars, saveVars, stream, cleaned_text, clip_detected,
                   outcome, accept_times,
                   stop_requested>>

\* line 255 raises, caught at line 315
MakeRecognizerFails ==
    /\ lpc = "recognizer"
    /\ lpc' = "finally"
    /\ UNCHANGED <<clipperVars, envVars, feedVars, saveVars, stream, recent_commands,
                   last_clip_time, cleaned_text, clip_detected, outcome, accept_times,
                   stop_requested>>

\* line 263: while self.is_listening
LoopTest ==
    /\ lpc = "loop"
    /\ lpc' = IF is_listening THEN "chunk" ELSE "finally"
    /\ UNCHANGED <<clipperVars, envVars, feedVars, saveVars, stream, recent_commands,
                   last_clip_time, cleaned_text, clip_detected, outcome, accept_times,
                   stop_requested>>

\* lines 265-266, 312-313: no utterance boundary in this chunk, or the read raises
ChunkSilent ==
    /\ lpc = "chunk"
    /\ outcome' = "silent"
    /\ lpc' = "loop"
    /\ UNCHANGED <<clipperVars, envVars, feedVars, saveVars, stream, recent_commands,
                   last_clip_time, cleaned_text, clip_detected, accept_times,
                   stop_requested>>

\* lines 268-279: text that is not meaningful, or nothing left of it
ChunkIgnored(text) ==
    /\ lpc = "chunk"
    /\ Heard[text].cleaned = <<>>
    /\ cleaned_text' = IF Heard[text].meaningful THEN <<>> ELSE cleaned_text
    /\ outcome' = "ignored"
    /\ lpc' = "loop"
    /\ UNCHANGED <<clipperVars, envVars, feedVars, saveVars, stream, recent_commands,
                   last_clip_time, clip_detected, accept_times,
                   stop_requested>>

\* lines 280-299: heard, no clip command detected
ChunkHeard(text) ==
    /\ lpc = "chunk"
    /\ Heard[text].cleaned # <<>>
    /\ ~Heard[text].detected
    /\ cleaned_text' = Heard[text].cleaned
    /\ clip_detected' = FALSE
    /\ outcome' = "heard"
    /\ lpc' = "loop"
    /\ UNCHANGED <<clipperVars, envVars, feedVars, saveVars, stream, recent_commands,
                   last_clip_time, accept_times,
                   stop_requested>>

\* lines 299-310: a detected command that is not accepted
ChunkRejected(text) ==
    /\ lpc = "chunk"
    /\ Heard[text].cleaned # <<>>
    /\ Heard[text].detected
    /\ cleaned_text' = Heard[text].cleaned
    /\ clip_detected' = TRUE
    /\ \/ /\ ~CooldownPassed(now, last_clip_time)
          /\ outcome' = "wait"
       \/ /\ CooldownPassed(now, last_clip_time)
          /\ IsDuplicate(cleaned_text', recent_commands)
          /\ outcome' = "duplicate"
    /\ lpc' = "loop"
    /\ UNCHANGED <<clipperVars, envVars, feedVars, saveVars, stream, recent_commands,
                   last_clip_time, accept_times,
                   stop_requested>>

\* lines 299-306: a detected command that is accepted
ChunkAccepted(text) ==
    /\ lpc = "chunk"
    /\ Heard[text].cleaned # <<>>
    /\ Heard[text].detected
    /\ cleaned_text' = Heard[text].cleaned
    /\ clip_detected' = TRUE
    /\ CooldownPassed(now, last_clip_time)
    /\ ~IsDuplicate(cleaned_text', recent_commands)
    /\ \E t \in Threads : StartSave(t)
    /\ last_clip_time' = now
    /\ recent_commands' = RecentAppend(recent_commands, cleaned_text')
    /\ accept_times' = Append(accept_times, now)
    /\ outcome' = "accepted"
    /\ lpc' = "loop"
    /\ UNCHANGED <<clipperVars, envVars, feedVars, timestamp, output_counter, frames,
                   result, stream, stop_requested>>

\* a mutant of Finally: the loop exits without closing the stream
Finally_NoClose ==
    /\ lpc = "finally"
    /\ lpc' = "stopped"
    /\ UNCHANGED <<clipperVars, envVars, feedVars, saveVars, stream, recent_commands,
                   last_clip_time, cleaned_text, clip_detected, outcome, accept_times,
                   stop_requested>>

\* lines 317-321
Finally ==
    /\ lpc = "finally"
    /\ stream' = IF stream = "open" THEN "closed" ELSE stream
    /\ lpc' = "stopped"
    /\ UNCHANGED <<clipperVars, envVars, feedVars, saveVars, recent_commands,
                   last_clip_time, cleaned_text, clip_detected, outcome, accept_times,
                   stop_requested>>

(* The recognition loop, with the clock *)

NextListen ==
    \/ Tick
    \/ StartListening
    \/ StopListening
    \/ OpenStream
    \/ OpenStreamFails
    \/ MakeRecognizer
    \/ MakeRecognizerFails
    \/ LoopTest
    \/ ChunkSilent
    \/ \E text \in Utterances : ChunkIgnored(text)
    \/ \E text \in Utterances : ChunkHeard(text)
    \/ \E text \in Utterances : ChunkRejected(text)
    \/ \E text \in Utterances : ChunkAccepted(text)
    \/ Finally

SpecListen == Init /\ [][NextListen]_vars

\* the steps of the thread that start_listening spawns (line 325)
ListenThread ==
    \/ OpenStream
    \/ OpenStreamFails
    \/ MakeRecognizer
    \/ MakeRecognizerFails
    \/ LoopTest
    \/ ChunkSilent
    \/ \E text \in Utterances : ChunkIgnored(text)
    \/ \E text \in Utterances : ChunkHeard(text)
    \/ \E text \in Utterances : ChunkRejected(text)
    \/ \E text \in Utterances : ChunkAccepted(text)
    \/ Finally

\* the spawned thread is scheduled fairly and every stream.read returns
SpecListenFair == Init /\ [][NextListen]_vars /\ WF_vars(ListenThread)

(* The recognition loop with the saves it dispatches, the feed and a resize *)

\* the steps of one save_clip thread (line 304)
SaveThread(t) ==
    \/ Acquire(t)
    \/ CheckEmpty(t)
    \/ CheckNonEmpty(t)
    \/ NameFiles(t)
    \/ OpenVideo(t)
    \/ OpenVideoFails(t)
    \/ CopyFrames(t)
    \/ AudioCheck(t)
    \/ WriteAudio(t)
    \/ EncodeOk(t)
    \/ EncodeFails(t)
    \/ Cleanup(t)

\* an utterance of Utterances in which a clip command is detected
ClipCommand == <<"k", "l", "i", "p">>

\* the loop of listen_for_clips on its way through a command
ClipLoop ==
    \/ OpenStream
    \/ MakeRecognizer
    \/ LoopTest
    \/ ChunkSilent
    \/ ChunkRejected(ClipCommand)
    \/ ChunkAccepted(ClipCommand)
    \/ Finally

\* one save called directly and the saves the loop dispatches
NextClip ==
    \/ SetBufferDuration(MaxDuration)
    \/ SetBufferDurationAudio
    \/ PushFrame(MaxClipPushes)
    \/ PushAudio
    \/ StartListening
    \/ StopListening
    \/ ClipLoop
    \/ CallSaveClip(1)
    \/ \E t \in Threads : SaveThread(t)

\* every started thread is scheduled fairly; stream.read and subprocess.run return
SpecClip ==
    /\ Init
    /\ [][NextClip]_vars
    /\ WF_vars(ClipLoop)
    /\ \A t \in Threads : WF_vars(SaveThread(t))

----------------------------------------------------------------------------
(* Properties *)

Last(s) == s[Len(s)]

Min(a, b) == IF a <= b THEN a ELSE b

\* the last n items of s
Suffix(s, n) == SubSeq(s, Len(s) - n + 1, Len(s))

Contiguous(s) == \A i \in 1..(Len(s) - 1) : s[i + 1] = s[i] + 1

FramePushed == next_frame' # next_frame

AudioPushed == next_audio' # next_audio

\* C1: a buffer made by set_buffer_duration(d) never holds more than its
\* capacity (d * 30 frames); a push into a full buffer removes exactly the
\* oldest item and appends the new one at the end, any other push appends.
C1_BoundedDropOldest ==
    [][/\ ~frame_buffer'.isNone => Len(frame_buffer'.items) <= buffer_duration' * FPS
       /\ ~audio_buffer'.isNone =>
              \E d \in Durations :
                  Len(audio_buffer'.items) <= d * AudioRate * AudioChannels
       /\ FramePushed =>
              frame_buffer'.items =
                  IF Len(frame_buffer.items) = buffer_duration * FPS
                  THEN Append(Tail(frame_buffer.items), next_frame)
                  ELSE Append(frame_buffer.items, next_frame)
       /\ AudioPushed => audio_buffer'.items = Append(audio_buffer.items, next_audio)
      ]_vars

\* C1 witness: the frame buffer is full and has evicted its oldest frames
C1_Witness ==
    /\ ~frame_buffer.isNone
    /\ Len(frame_buffer.items) = buffer_duration * FPS
    /\ Len(pushed_frames) > Len(frame_buffer.items)
    /\ frame_buffer.items[1] = pushed_frames[1] + 2

\* C2: the frames a save copies are the most recent pushes into the buffer,
\* in arrival order, without gap or repetition, ending at the last frame
\* pushed; all of them when no more than the capacity were pushed.
C2_SnapshotIsLatestWindow ==
    [][\A t \in Threads :
          (pc[t] = "copy_frames" /\ pc'[t] = "audio_check") =>
              /\ frames'[t] =
                     Suffix(pushed_frames, Min(Len(pushed_frames), buffer_duration * FPS))
              /\ Contiguous(frames'[t])
              /\ frames'[t] # <<>> => Last(frames'[t]) = next_frame - 1
              /\ Len(pushed_frames) <= buffer_duration * FPS => frames'[t] = pushed_frames
      ]_vars

\* C2 witness: a save has copied a full window after older frames were evicted
C2_Witness ==
    /\ pc[1] = "audio_check"
    /\ Len(frames[1]) = buffer_duration * FPS
    /\ Len(pushed_frames) > Len(frames[1])

InCopyWindow(t) == pc[t] \in {"audio_check", "write_audio"}

\* C3: no push to the frame or audio buffer takes effect between a save's
\* frame copy and the end of its audio copy.
C3_NoPushDuringSnapshot ==
    [][(\E t \in Threads : InCopyWindow(t)) => (~FramePushed /\ ~AudioPushed)]_vars

\* C3 witness: a save is between its two copies, frames copied, audio present
C3_Witness ==
    \E t \in Threads :
        /\ pc[t] = "write_audio"
        /\ frames[t] # <<>>
        /\ ~audio_buffer.isNone /\ audio_buffer.items # <<>>

\* C4: the lock is held for the snapshot copy only: a save in its encoder or
\* cleanup step does not hold it, so that another save can take it.
C4_LockOnlyForCopy ==
    \A t \in Threads : pc[t] \in {"encode", "cleanup"} => lock # t

FrameBufferEmpty == frame_buffer.isNone \/ frame_buffer.items = <<>>

\* C8: a save that finds the frame buffer unset or empty ends with 'nothing
\* to save' and changes nothing: no temporary file, no clip file, no encoder
\* run, clip_counter as before.
C8_NothingToSave ==
    [][\A t \in Threads :
          (pc[t] = "check" /\ FrameBufferEmpty /\ pc'[t] # "check") =>
              /\ pc'[t] = "done"
              /\ result'[t] = "nothing"
              /\ fs' = fs
              /\ outputs' = outputs
              /\ clip_counter' = clip_counter
              /\ output_counter'[t] = 0
              /\ ~\E f \in fs' : f.by = t
              /\ lock' = 0
      ]_vars

\* C8 witness: a save ended with 'nothing to save' after another one had counted
C8_Witness ==
    \E t \in Threads : pc[t] = "done" /\ result[t] = "nothing" /\ clip_counter > 0

\* C9: a finished save has left none of the temporary files it created, and
\* no longer holds the lock, whatever its outcome.
C9_TempFilesRemoved ==
    \A t \in Threads :
        pc[t] = "done" => (lock # t /\ ~\E f \in fs : f.by = t)

\* C9 witness: a save that raised while writing its files and a later save
\* whose encoder run failed are both finished
C9_Witness ==
    \E t1, t2 \in Threads :
        /\ pc[t1] = "done" /\ result[t1] = "error"
        /\ pc[t2] = "done" /\ result[t2] = "failed"
        /\ output_counter[t1] >= 1
        /\ output_counter[t2] > output_counter[t1]

AllSavesFinished == \A t \in Threads : pc[t] \in {"idle", "done"}

PassedCheck(t) == pc[t] \notin {"idle", "lock", "check"} /\ result[t] # "nothing"

\* C10 as claimed: once the saves have finished, clip_counter is the number
\* of saves that ended successfully.
C10_CounterCountsSuccesses ==
    AllSavesFinished =>
        clip_counter = Cardinality({t \in Threads : result[t] = "success"})

\* C10 amended: clip_counter is the number of saves that got past the
\* emptiness check, whatever their outcome afterwards.
C10_CounterCountsAttempts ==
    clip_counter = Cardinality({t \in Threads : PassedCheck(t)})

\* C10 witness: finished saves with each outcome short of success
C10_Witness ==
    /\ AllSavesFinished
    /\ \E t \in Threads : result[t] = "failed"
    /\ \E t \in Threads : result[t] = "nothing"
    /\ clip_counter = 1

\* a step of the loop that has looked for a command in an utterance
ChunkProcessed == lpc = "chunk" /\ lpc' = "loop" /\ outcome' \notin {"silent", "ignored"}

Dispatched == {t \in Threads : pc[t] # "idle"}

\* C5: any two triggers accepted by the loop are at least the cooldown apart;
\* a trigger arriving less than the cooldown after an accepted one is not
\* accepted, and every accepted trigger dispatches exactly one save.
C5_CooldownSeparation ==
    [][/\ \A i, j \in 1..Len(accept_times') :
              i < j => accept_times'[j] - accept_times'[i] >= Cooldown
       /\ Cardinality(Dispatched') = Len(accept_times')
       /\ (/\ ChunkProcessed
           /\ accept_times # <<>>
           /\ now - Last(accept_times) < Cooldown) =>
              (accept_times' = accept_times /\ pc' = pc)
      ]_vars

\* C5 witness: two triggers were accepted and one more was told to wait
C5_Witness ==
    /\ Len(accept_times) >= 2
    /\ outcome = "wait"
    /\ now - Last(accept_times) < Cooldown

\* C6: a detected trigger whose text is in recent_commands is not accepted
\* and dispatches no save, however long ago the last trigger was accepted.
C6_DuplicateNeverAccepted ==
    [][(/\ ChunkProcessed
        /\ clip_detected'
        /\ InRecent(cleaned_text', recent_commands)) =>
           /\ outcome' # "accepted"
           /\ pc' = pc
           /\ accept_times' = accept_times
           /\ last_clip_time' = last_clip_time
           /\ recent_commands' = recent_commands
      ]_vars

\* C6 witness: a text that is the oldest of several recent commands is
\* rejected as a duplicate after the cooldown has passed
C6_Witness ==
    /\ outcome = "duplicate"
    /\ now - last_clip_time > Cooldown
    /\ Len(recent_commands) >= 2
    /\ cleaned_text = recent_commands[1]

\* detection as C7 states it: a word equal to a vocabulary entry, or a word
\* whose ratio against "clip" is above the threshold
TokenDetected(cleaned) ==
    \E i \in 1..Len(Split(cleaned)) :
        \/ Split(cleaned)[i] \in ClipWords
        \/ 100 * 2 * LCS(Clip, Split(cleaned)[i]) >
               FuzzThreshold * (Len(Clip) + Len(Split(cleaned)[i]))

TokenDetects == [c \in {Heard[text].cleaned : text \in Utterances} |-> TokenDetected(c)]

\* C7: a command is detected exactly when some word of the cleaned text
\* equals a vocabulary entry or passes the fuzzy threshold; a word that only
\* contains a vocabulary entry ("quickly") is not detected.
C7_DetectionIsPerToken ==
    outcome \in {"heard", "wait", "duplicate", "accepted"} =>
        (clip_detected <=> TokenDetects[cleaned_text])

\* C11: once stop_listening has been called after start_listening, the
\* recognition loop eventually reaches STOPPED, also when the call comes before
\* the spawned thread has set is_listening.
C11_StopReachesStopped == stop_requested ~> (lpc = "stopped")

\* C12: once the recognition loop is STOPPED the stream is not open: a stream
\* that was acquired has been stopped and closed, whatever the way out.
C12_StreamClosedOnExit ==
    lpc = "stopped" => stream \in {"none", "closed"}

\* the recognizer could not be constructed after the stream was opened, and the
\* loop exited with the stream closed
C12_Witness ==
    /\ lpc = "stopped"
    /\ stream = "closed"
    /\ ~is_listening
    /\ ~stop_requested

\* C13: set_buffer_duration(d) installs an empty frame buffer and an empty audio
\* buffer of the capacities for d, taking nothing over from the old buffers, and
\* every snapshot a save copies afterwards has at most d * 30 frames.
C13_ResizeDiscards ==
    [][/\ (cfg_pc = "idle" /\ cfg_pc' = "duration_audio") =>
              /\ buffer_duration' = cfg_arg'
              /\ ~frame_buffer'.isNone
              /\ frame_buffer'.items = <<>>
              /\ frame_buffer'.maxlen = cfg_arg' * FPS
       /\ (cfg_pc = "duration_audio" /\ cfg_pc' = "idle") =>
              /\ ~audio_buffer'.isNone
              /\ audio_buffer'.items = <<>>
              /\ audio_buffer'.maxlen = cfg_arg * AudioRate * AudioChannels
              /\ \A i \in 1..Len(frame_buffer'.items) :
                     frame_buffer'.items[i] > next_frame - 1 - Len(pushed_frames)
       /\ \A t \in Threads :
              (pc[t] = "copy_frames" /\ pc'[t] = "audio_check") =>
                  /\ Len(frames'[t]) <= buffer_duration * FPS
                  /\ \A i \in 1..Len(frames'[t]) :
                         frames'[t][i] > next_frame - 1 - Len(pushed_frames)
      ]_vars

\* C13 witness: two frames were pushed, a resize discarded them, thirty more
\* were pushed and a save has copied exactly the new capacity
C13_Witness ==
    /\ cfg_pc = "idle"
    /\ buffer_duration = 1
    /\ pc[1] = "audio_check"
    /\ Len(frames[1]) = buffer_duration * FPS
    /\ frames[1][1] = 3
    /\ audio_buffer.items = <<>>
    /\ next_audio > 1

SaveInProgress(t) == pc[t] \notin {"idle", "done"}

\* the feed's push of its next frame, whatever its number, can be taken
FeedCanPush == ENABLED PushFrame(next_frame)

\* C14: while a dispatched save is in any of its steps, the recognition loop
\* can take its next step and the capture feed can push its next frame.
C14_SaveNeverBlocks ==
    \A t \in Threads :
        SaveInProgress(t) =>
            /\ lpc = "loop" => ENABLED LoopTest
            /\ lpc = "chunk" => ENABLED ChunkSilent
            /\ ~frame_buffer.isNone => FeedCanPush

SaveOutcomes == {"nothing", "success", "failed", "error"}

\* C15: every dispatched save eventually finishes with 'nothing to save',
\* success or a failure, whether or not stop_listening is called meanwhile:
\* again and again every save that was started has finished with an outcome.
C15_DispatchedSaveFinishes ==
    []<>(\A t \in Threads :
            pc[t] = "idle" \/ (pc[t] = "done" /\ result[t] \in SaveOutcomes))

\* C15 witness: the loop has been stopped by stop_listening and the save it
\* dispatched, which waited for the lock behind another save, is encoding
C15_Witness ==
    /\ stop_requested
    /\ lpc = "stopped"
    /\ accept_times # <<>>
    /\ pc[1] = "done"
    /\ pc[2] = "encode"

\* a step of the loop in which a command was detected in the utterance
TriggerProcessed ==
    lpc = "chunk" /\ lpc' = "loop" /\ outcome' \in {"wait", "duplicate", "accepted"}

\* C16: a detected trigger whose utterance is not in RecentCommands is rejected
\* by the cooldown only when less than the cooldown has elapsed since the last
\* accepted trigger; when the cooldown or more has elapsed, exactly the cooldown
\* included, it is accepted.
C16_AcceptedAtCooldown ==
    [][(TriggerProcessed /\ ~InRecent(cleaned_text', recent_commands)) =>
          /\ outcome' = "wait" => now - last_clip_time < Cooldown
          /\ now - last_clip_time >= Cooldown => outcome' = "accepted"
      ]_vars

\* C17: the emptiness check of a save and its copy of the frames agree, also
\* when set_buffer_duration runs meanwhile: a save that writes its temporary
\* video file's frames or runs the encoder has a frame sequence that is not empty.
C17_NoEmptySnapshot ==
    \A t \in Threads :
        pc[t] \in {"audio_check", "write_audio", "encode"} => frames[t] # <<>>

\* a step of the loop that accepts a trigger
TriggerAccepted == lpc = "chunk" /\ lpc' = "loop" /\ outcome' = "accepted"

\* C18: last_clip_time and recent_commands change on acceptance only: a step
\* that handles a chunk without accepting a trigger (cooldown, duplicate, no
\* command, nothing heard) leaves both as they are and starts no save; an
\* accepted trigger sets last_clip_time to the current time, appends the
\* utterance to recent_commands, dropping the oldest beyond 3, and starts
\* exactly one save.
C18_DebounceChangesOnAccept ==
    [][/\ (~TriggerAccepted /\ lpc # "recognizer") =>
              /\ last_clip_time' = last_clip_time
              /\ recent_commands' = recent_commands
       /\ (lpc = "chunk" /\ ~TriggerAccepted) => pc' = pc
       /\ TriggerAccepted =>
              /\ last_clip_time' = now
              /\ recent_commands' =
                     IF Len(recent_commands) = RecentMax
                     THEN Append(Tail(recent_commands), cleaned_text')
                     ELSE Append(recent_commands, cleaned_text')
              /\ Cardinality({t \in Threads : pc'[t] # pc[t]}) = 1
              /\ \A t \in Threads :
                     pc'[t] # pc[t] => (pc[t] = "idle" /\ pc'[t] = "lock")
      ]_vars

\* C18 witness: the fourth accepted trigger has pushed the first utterance out
\* of recent_commands
C18_Witness ==
    /\ outcome = "accepted"
    /\ lpc = "loop"
    /\ Len(accept_times) = RecentMax + 1
    /\ Len(recent_commands) = RecentMax
    /\ last_clip_time = now
    /\ Last(recent_commands) = cleaned_text

\* a save that has built its file names
Named(t) == pc[t] \notin {"idle", "lock", "check", "name"} /\ result[t] # "nothing"

\* C19: the counter values that saves past the emptiness check put into their
\* output names are at least 1 and pairwise distinct, each larger than every
\* value given out before it, so that no two saves have the same output name
\* and every successful save writes a clip file of a new name.
C19_DistinctCounters ==
    [][\A t \in Threads :
          /\ (pc[t] = "name" /\ pc'[t] # "name") =>
                 /\ output_counter'[t] >= 1
                 /\ \A s \in Threads \ {t} :
                        /\ output_counter'[t] > output_counter[s]
                        /\ Named(s)' =>
                               <<timestamp'[t], output_counter'[t]>> #
                                   <<timestamp'[s], output_counter'[s]>>
          /\ (pc[t] = "encode" /\ result'[t] = "success") =>
                 /\ <<timestamp[t], output_counter[t]>> \notin outputs
                 /\ <<timestamp[t], output_counter[t]>> \in outputs'
          /\ pc[t] # "name" => output_counter'[t] = output_counter[t]
      ]_vars

\* C19 witness: two saves within the same second have both produced a clip,
\* under the counter values 1 and 2
C19_Witness ==
    \E t1, t2 \in Threads :
        /\ result[t1] = "success" /\ output_counter[t1] = 1
        /\ result[t2] = "success" /\ output_counter[t2] = 2
        /\ timestamp[t1] = timestamp[t2]
        /\ Cardinality(outputs) = 2

\* between the creation of the temporary files and their removal
InTempWindow(t) ==
    pc[t] \in {"copy_frames", "audio_check", "write_audio", "encode", "cleanup"}

\* C20: at most one save at a time is between creating its temporary files and
\* removing them, and every temporary file that exists belongs to that save.
C20_OneSaveOwnsTempFiles ==
    /\ Cardinality({t \in Threads : InTempWindow(t)}) <= 1
    /\ \A f \in fs : InTempWindow(f.by) /\ lock = f.by

\* C20 witness: a save has finished and a second one of the same second is
\* encoding from temporary files of the same names
C20_Witness ==
    \E t1, t2 \in Threads :
        /\ pc[t1] = "done" /\ result[t1] = "success"
        /\ pc[t2] = "encode"
        /\ timestamp[t1] = timestamp[t2]
        /\ \E f \in fs : f.name = TempVideo(timestamp[t2]) /\ f.by = t2
        /\ \E f \in fs : f.name = TempAudio(timestamp[t2]) /\ f.by = t2

====
